---- MODULE Spec2Model ----
(***************************************************************************)
(* Anthropic adapter of rust-genai: request construction                   *)
(* (to_web_request_data / into_anthropic_request_parts), response decoding *)
(* (to_chat_response) and usage normalisation (into_usage).                *)
(*                                                                         *)
(* The adapter is stateless: every operation is a function of its          *)
(* arguments.  The state machine holds one pending invocation (`call`) and *)
(* what it returned (`result`); Init draws the invocation from bounded     *)
(* argument sets and one action per operation applies it.                  *)
(*                                                                         *)
(* Representation.  A Rust String is a sequence of atoms (TLC strings are  *)
(* atomic, so `contains`, `starts_with`, `join`, `trim_end` work on        *)
(* sequences); a model name is split at its hyphens, the hyphens kept as   *)
(* atoms.  Option<T> is a sequence of length 0 (None) or 1 (Some).  A JSON *)
(* value is a record tagged by `kind` ("string" / "array"); a JSON object  *)
(* inside a content array is a record whose domain is the set of keys      *)
(* present; the optional top-level keys of the payload are Option fields.  *)
(* f64 sampling values are held in hundredths.                             *)
(***************************************************************************)
EXTENDS Integers, Sequences, FiniteSets, TLC

VARIABLES call, result, again

vars == <<call, result, again>>

\* ---------------------------------------------------------------- Option
None == <<>>

Some(v) == <<v>>

IsSome(o) == Len(o) = 1

Unwrap(o) == o[1]

\* ---------------------------------------------------------------- strings
Contains(s, p) ==
    \E i \in 0..(Len(s) - Len(p)) : SubSeq(s, i + 1, i + Len(p)) = p

StartsWith(s, p) == Len(s) >= Len(p) /\ SubSeq(s, 1, Len(p)) = p

RECURSIVE JoinWith(_, _)
JoinWith(strs, sep) ==
    IF Len(strs) = 0 THEN <<>>
    ELSE IF Len(strs) = 1 THEN strs[1]
    ELSE strs[1] \o sep \o JoinWith(Tail(strs), sep)

IsWhitespace(c) == c \in {" ", "\n"}

RECURSIVE TrimEnd(_)
TrimEnd(s) ==
    IF Len(s) > 0 /\ IsWhitespace(s[Len(s)]) THEN TrimEnd(SubSeq(s, 1, Len(s) - 1))
    ELSE s

RECURSIVE Flatten(_)
Flatten(ss) == IF Len(ss) = 0 THEN <<>> ELSE ss[1] \o Flatten(Tail(ss))

MapSeq(s, F(_)) == [i \in 1..Len(s) |-> F(s[i])]

Min(a, b) == IF a < b THEN a ELSE b

Max(a, b) == IF a > b THEN a ELSE b

SaturatingSub(a, b) == IF a >= b THEN a - b ELSE 0

\* ---------------------------------------------------------------- constants
MAX_TOKENS_64K == 64000

MAX_TOKENS_32K == 32000

MAX_TOKENS_8K == 8192

MAX_TOKENS_4K == 4096

CacheControl1h == [type |-> "ephemeral", ttl |-> "1h"]

OAuthIdentity == <<"You are Claude Code, Anthropic's official CLI for Claude.">>

NotClaudeCodePrefix == <<"You are NOT Claude Code. ">>

\* ---------------------------------------------------------------- JSON
JStr(text) == [kind |-> "string", text |-> text]

JArr(items) == [kind |-> "array", items |-> items]

\* value_ext x_insert / x_take on a JSON object
XInsert(obj, key, val) ==
    [k \in (DOMAIN obj) \cup {key} |-> IF k = key THEN val ELSE obj[k]]

XGet(obj, key) == IF key \in DOMAIN obj THEN Some(obj[key]) ELSE None

HasKey(obj, key) == key \in DOMAIN obj

\* ---------------------------------------------------------------- cache control
apply_cache_control_to_text(is_cache_control, content) ==
    IF is_cache_control
    THEN JArr(<<[type |-> "text", text |-> content, cache_control |-> CacheControl1h]>>)
    ELSE JStr(content)

apply_cache_control_to_parts(is_cache_control, parts) ==
    IF is_cache_control /\ Len(parts) > 0
    THEN [parts EXCEPT ![Len(parts)] = XInsert(@, "cache_control", CacheControl1h)]
    ELSE parts

\* ---------------------------------------------------------------- content to wire
PartToWire(part) ==
    IF part.kind = "Text"
    THEN [type |-> "text", text |-> part.text]
    ELSE IF part.source = "Url"
    THEN [type |-> "image", source |-> [type |-> "url", url |-> part.data]]
    ELSE [type |-> "image",
          source |-> [type |-> "base64", media_type |-> part.content_type, data |-> part.data]]

\* Variant: a Thinking block is written as a text element.
BlockToWire_ThinkingAsText(block) ==
    CASE block.variant \in {"Text", "Thinking"} -> [type |-> "text", text |-> block.text]
      [] block.variant = "RedactedThinking" ->
            [type |-> "redacted_thinking", data |-> block.data]
      [] block.variant = "ToolUse" ->
            [type |-> "tool_use", id |-> block.id, name |-> block.name, input |-> block.input]
      [] block.variant = "ToolResult" ->
            [type |-> "tool_result", tool_use_id |-> block.tool_use_id,
             content |-> block.content]

BlockToWire(block) ==
    CASE block.variant = "Text" -> [type |-> "text", text |-> block.text]
      [] block.variant = "Thinking" ->
            IF IsSome(block.signature)
            THEN XInsert([type |-> "thinking", thinking |-> block.text],
                         "signature", Unwrap(block.signature))
            ELSE [type |-> "thinking", thinking |-> block.text]
      [] block.variant = "RedactedThinking" ->
            [type |-> "redacted_thinking", data |-> block.data]
      [] block.variant = "ToolUse" ->
            [type |-> "tool_use", id |-> block.id, name |-> block.name, input |-> block.input]
      [] block.variant = "ToolResult" ->
            [type |-> "tool_result", tool_use_id |-> block.tool_use_id,
             content |-> block.content]

ToolCallToWire(tool_call) ==
    [type |-> "tool_use", id |-> tool_call.call_id, name |-> tool_call.fn_name,
     input |-> tool_call.fn_arguments]

\* Variant: every tool_result carries the call_id in both fields.
ToolResponseToWire_IdAsContent(tool_response) ==
    [type |-> "tool_result", content |-> tool_response.call_id,
     tool_use_id |-> tool_response.call_id]

ToolResponseToWire(tool_response) ==
    [type |-> "tool_result", content |-> tool_response.content,
     tool_use_id |-> tool_response.call_id]

\* ---------------------------------------------------------------- messages
\* msg.options.map(|o| o.cache_control.is_some()).unwrap_or(false)
IsCacheControl(msg) ==
    IF IsSome(msg.options) THEN IsSome(Unwrap(msg.options).cache_control) ELSE FALSE

\* Variant: a System message of any content pushes a segment.
SystemsOfMessage_AnyContent(msg) ==
    IF msg.role = "System"
    THEN <<[content |-> IF msg.content.kind = "Text" THEN msg.content.text ELSE <<>>,
            is_cache_control |-> IsCacheControl(msg)]>>
    ELSE <<>>

\* What one message adds to `systems`: only a System message with Text content
\* pushes a (content, is_cache_control) pair.
SystemsOfMessage(msg) ==
    IF msg.role = "System" /\ msg.content.kind = "Text"
    THEN <<[content |-> msg.content.text, is_cache_control |-> IsCacheControl(msg)]>>
    ELSE <<>>

UserContent(msg) ==
    CASE msg.content.kind = "Text" ->
            apply_cache_control_to_text(IsCacheControl(msg), msg.content.text)
      [] msg.content.kind = "Parts" ->
            JArr(apply_cache_control_to_parts(IsCacheControl(msg),
                                              MapSeq(msg.content.parts, PartToWire)))
      [] msg.content.kind = "Blocks" ->
            JArr(apply_cache_control_to_parts(IsCacheControl(msg),
                                              MapSeq(msg.content.blocks, BlockToWire)))

UserMessages(msg) ==
    IF msg.content.kind \in {"ToolCalls", "ToolResponses"} THEN <<>>
    ELSE <<[role |-> "user", content |-> UserContent(msg)]>>

\* Variant: an Assistant message of Parts content is emitted like a User one.
AssistantMessages_PartsEmitted(msg) ==
    IF msg.content.kind = "Parts"
    THEN <<[role |-> "assistant",
            content |-> JArr(apply_cache_control_to_parts(
                                IsCacheControl(msg), MapSeq(msg.content.parts, PartToWire)))]>>
    ELSE IF msg.content.kind = "ToolResponses" THEN <<>>
    ELSE <<[role |-> "assistant",
            content |-> IF msg.content.kind = "Text"
                        THEN apply_cache_control_to_text(IsCacheControl(msg), msg.content.text)
                        ELSE JArr(apply_cache_control_to_parts(
                                     IsCacheControl(msg),
                                     IF msg.content.kind = "ToolCalls"
                                     THEN MapSeq(msg.content.tool_calls, ToolCallToWire)
                                     ELSE MapSeq(msg.content.blocks, BlockToWire)))]>>

AssistantMessages(msg) ==
    CASE msg.content.kind = "Text" ->
            <<[role |-> "assistant",
               content |-> apply_cache_control_to_text(IsCacheControl(msg), msg.content.text)]>>
      [] msg.content.kind = "ToolCalls" ->
            <<[role |-> "assistant",
               content |-> JArr(apply_cache_control_to_parts(
                                   IsCacheControl(msg),
                                   MapSeq(msg.content.tool_calls, ToolCallToWire)))]>>
      [] msg.content.kind = "Blocks" ->
            <<[role |-> "assistant",
               content |-> JArr(apply_cache_control_to_parts(
                                   IsCacheControl(msg),
                                   MapSeq(msg.content.blocks, BlockToWire)))]>>
      [] msg.content.kind \in {"Parts", "ToolResponses"} -> <<>>

ToolMessages(msg) ==
    IF msg.content.kind = "ToolResponses"
    THEN <<[role |-> "user",
            content |-> JArr(apply_cache_control_to_parts(
                                IsCacheControl(msg),
                                MapSeq(msg.content.tool_responses, ToolResponseToWire)))]>>
    ELSE <<>>

\* What one message adds to the wire `messages` vector.
WireOfMessage(msg) ==
    CASE msg.role = "System" -> <<>>
      [] msg.role = "User" -> UserMessages(msg)
      [] msg.role = "Assistant" -> AssistantMessages(msg)
      [] msg.role = "Tool" -> ToolMessages(msg)

\* `systems` after the loop: the top-level system text (never cache-flagged)
\* followed by what the messages pushed.
CollectSystems(chat_req) ==
    (IF IsSome(chat_req.system)
     THEN <<[content |-> Unwrap(chat_req.system), is_cache_control |-> FALSE]>>
     ELSE <<>>)
    \o Flatten(MapSeq(chat_req.messages, SystemsOfMessage))

CollectMessages(chat_req) == Flatten(MapSeq(chat_req.messages, WireOfMessage))

\* ---------------------------------------------------------------- system value
OAuthSystemText(systems, idx) ==
    IF idx = 0 THEN NotClaudeCodePrefix \o systems[idx + 1].content
    ELSE systems[idx + 1].content

\* Variant: the last segment is annotated only when it is flagged.
OAuthCacheHere_FlaggedOnly(systems, idx) == systems[idx + 1].is_cache_control

OAuthCacheHere(systems, idx) ==
    systems[idx + 1].is_cache_control \/ idx = Len(systems) - 1

OAuthSystemPart(systems, idx) ==
    IF OAuthCacheHere(systems, idx)
    THEN XInsert([type |-> "text", text |-> OAuthSystemText(systems, idx)],
                 "cache_control", CacheControl1h)
    ELSE [type |-> "text", text |-> OAuthSystemText(systems, idx)]

OAuthSystem(systems) ==
    JArr(<<[type |-> "text", text |-> OAuthIdentity]>>
         \o [i \in 1..Len(systems) |-> OAuthSystemPart(systems, i - 1)])

\* -1 when no segment is flagged, else the 0-based index of the last flagged one.
LastCacheIdx(systems) ==
    IF \E i \in 1..Len(systems) : systems[i].is_cache_control
    THEN (CHOOSE i \in 1..Len(systems) :
             /\ systems[i].is_cache_control
             /\ \A j \in (i + 1)..Len(systems) : ~systems[j].is_cache_control) - 1
    ELSE -1

UseSystemArray(last_cache_idx) == last_cache_idx > 0

ApiKeySystem(systems) ==
    IF UseSystemArray(LastCacheIdx(systems))
    THEN JArr([i \in 1..Len(systems) |->
                 IF i - 1 = LastCacheIdx(systems)
                 THEN [type |-> "text", text |-> systems[i].content,
                       cache_control |-> CacheControl1h]
                 ELSE [type |-> "text", text |-> systems[i].content]])
    ELSE JStr(JoinWith([i \in 1..Len(systems) |-> systems[i].content], <<"\n", "\n">>))

BuildSystem(systems, is_oauth) ==
    IF Len(systems) > 0
    THEN Some(IF is_oauth THEN OAuthSystem(systems) ELSE ApiKeySystem(systems))
    ELSE None

\* ---------------------------------------------------------------- tools
ToolToWire(tool) ==
    IF IsSome(tool.description)
    THEN XInsert([name |-> tool.name, input_schema |-> tool.schema],
                 "description", Unwrap(tool.description))
    ELSE [name |-> tool.name, input_schema |-> tool.schema]

BuildTools(tools) ==
    IF IsSome(tools)
    THEN Some(IF Len(Unwrap(tools)) > 0
              THEN [MapSeq(Unwrap(tools), ToolToWire)
                       EXCEPT ![Len(Unwrap(tools))] =
                                  XInsert(@, "cache_control", CacheControl1h)]
              ELSE <<>>)
    ELSE None

into_anthropic_request_parts(chat_req, is_oauth, thinking_enabled) ==
    [system |-> BuildSystem(CollectSystems(chat_req), is_oauth),
     messages |-> CollectMessages(chat_req),
     tools |-> BuildTools(chat_req.tools)]

\* ---------------------------------------------------------------- to_web_request_data
ANTHROPIC_VERSION == <<"2023-06-01">>

BASE_URL == <<"https://api.anthropic.com/v1/">>

get_service_url(service_type, base_url) ==
    IF service_type \in {"Chat", "ChatStream"} THEN base_url \o <<"messages">>
    ELSE base_url \o <<"embeddings">>

IsOAuth(api_key) == StartsWith(api_key, <<"Bearer ">>)

BuildHeaders(api_key) ==
    IF IsOAuth(api_key)
    THEN <<[name |-> "Authorization", value |-> api_key],
           [name |-> "anthropic-version", value |-> ANTHROPIC_VERSION],
           [name |-> "anthropic-beta", value |-> <<"oauth-2025-04-20">>]>>
    ELSE <<[name |-> "x-api-key", value |-> api_key],
           [name |-> "anthropic-version", value |-> ANTHROPIC_VERSION]>>

SupportsThinking(model_name) ==
    \/ Contains(model_name, <<"claude", "-", "opus", "-", "4">>)
    \/ Contains(model_name, <<"claude", "-", "sonnet", "-", "4">>)
    \/ Contains(model_name, <<"claude", "-", "3", "-", "7", "-", "sonnet">>)
    \/ Contains(model_name, <<"claude", "-", "haiku", "-", "4", "-", "5">>)

\* Variant: the reasoning effort alone decides, the model name is not looked at.
ThinkingEnabled_AnyModel(model_name, reasoning_effort) ==
    IF IsSome(reasoning_effort)
    THEN IF Unwrap(reasoning_effort).level = "Budget"
         THEN Unwrap(reasoning_effort).budget > 0
         ELSE TRUE
    ELSE FALSE

ThinkingEnabled(model_name, reasoning_effort) ==
    IF SupportsThinking(model_name)
    THEN IF IsSome(reasoning_effort)
         THEN IF Unwrap(reasoning_effort).level = "Budget"
              THEN Unwrap(reasoning_effort).budget > 0
              ELSE TRUE
         ELSE FALSE
    ELSE FALSE

\* Variant: an unmatched model name gets the 8K tier.
DefaultMaxTokens_Fallback8K(model_name) ==
    IF \/ Contains(model_name, <<"claude", "-", "sonnet">>)
       \/ Contains(model_name, <<"claude", "-", "3", "-", "7", "-", "sonnet">>)
    THEN MAX_TOKENS_64K
    ELSE IF Contains(model_name, <<"claude", "-", "opus", "-", "4">>) THEN MAX_TOKENS_32K
    ELSE IF \/ Contains(model_name, <<"3", "-", "opus">>)
            \/ Contains(model_name, <<"3", "-", "haiku">>)
    THEN MAX_TOKENS_4K
    ELSE MAX_TOKENS_8K

DefaultMaxTokens(model_name) ==
    IF \/ Contains(model_name, <<"claude", "-", "sonnet">>)
       \/ Contains(model_name, <<"claude", "-", "3", "-", "7", "-", "sonnet">>)
    THEN MAX_TOKENS_64K
    ELSE IF Contains(model_name, <<"claude", "-", "opus", "-", "4">>) THEN MAX_TOKENS_32K
    ELSE IF Contains(model_name, <<"claude", "-", "3", "-", "5">>) THEN MAX_TOKENS_8K
    ELSE IF \/ Contains(model_name, <<"3", "-", "opus">>)
            \/ Contains(model_name, <<"3", "-", "haiku">>)
    THEN MAX_TOKENS_4K
    ELSE MAX_TOKENS_64K

ResolveMaxTokens(model_name, max_tokens) ==
    IF IsSome(max_tokens) THEN Unwrap(max_tokens) ELSE DefaultMaxTokens(model_name)

EffortBudget(reasoning_effort) ==
    IF IsSome(reasoning_effort)
    THEN CASE Unwrap(reasoning_effort).level = "Low" -> 4096
           [] Unwrap(reasoning_effort).level = "Medium" -> 16384
           [] Unwrap(reasoning_effort).level = "High" -> 32768
           [] Unwrap(reasoning_effort).level = "Budget" -> Unwrap(reasoning_effort).budget
    ELSE 16384

ClampBudget(budget_tokens, max_tokens) ==
    Min(Max(budget_tokens, 1024), SaturatingSub(max_tokens, 100))

BuildThinking(thinking_enabled, reasoning_effort, max_tokens) ==
    IF thinking_enabled
    THEN Some([type |-> "enabled",
               budget_tokens |-> ClampBudget(EffortBudget(reasoning_effort), max_tokens)])
    ELSE None

is_claude_4_5(model_name) == Contains(model_name, <<"-", "4", "-", "5", "-">>)

BuildTemperature(thinking_enabled, temperature) ==
    IF ~thinking_enabled THEN temperature ELSE None

\* Variant: the caller's top_p is always forwarded.
BuildTopP_Forwarded(model_name, thinking_enabled, temperature_set, top_p) == top_p

BuildTopP(model_name, thinking_enabled, temperature_set, top_p) ==
    IF IsSome(top_p)
    THEN IF thinking_enabled
         THEN IF Unwrap(top_p) >= 95 /\ Unwrap(top_p) <= 100 THEN top_p ELSE None
         ELSE IF is_claude_4_5(model_name) /\ temperature_set THEN None
         ELSE top_p
    ELSE None

BuildPayload(model_name, service_type, parts, options_set, thinking_enabled) ==
    [model |-> model_name,
     messages |-> parts.messages,
     stream |-> (service_type = "ChatStream"),
     system |-> parts.system,
     tools |-> parts.tools,
     max_tokens |-> ResolveMaxTokens(model_name, options_set.max_tokens),
     thinking |-> BuildThinking(thinking_enabled, options_set.reasoning_effort,
                                ResolveMaxTokens(model_name, options_set.max_tokens)),
     temperature |-> BuildTemperature(thinking_enabled, options_set.temperature),
     stop_sequences |-> IF Len(options_set.stop_sequences) > 0
                        THEN Some(options_set.stop_sequences) ELSE None,
     top_p |-> BuildTopP(model_name, thinking_enabled,
                         IsSome(BuildTemperature(thinking_enabled, options_set.temperature)),
                         options_set.top_p)]

\* target.auth is None when get_api_key finds no usable credential (the `?` at
\* the top of the function returns the error).
to_web_request_data(target, service_type, chat_req, options_set) ==
    IF ~IsSome(target.auth) THEN [ok |-> FALSE, error |-> "ApiKey"]
    ELSE [ok |-> TRUE,
          url |-> get_service_url(service_type, target.endpoint),
          headers |-> BuildHeaders(Unwrap(target.auth)),
          payload |-> BuildPayload(
              target.model_name, service_type,
              into_anthropic_request_parts(
                  chat_req, IsOAuth(Unwrap(target.auth)),
                  ThinkingEnabled(target.model_name, options_set.reasoning_effort)),
              options_set,
              ThinkingEnabled(target.model_name, options_set.reasoning_effort))]

\* ---------------------------------------------------------------- into_usage
\* Variant: a missing vendor counter falls back on the normalised field.
TakeCounter_Aliased(usage_value, key) ==
    IF HasKey(usage_value, key) THEN usage_value[key]
    ELSE IF key = "input_tokens" /\ HasKey(usage_value, "prompt_tokens")
    THEN usage_value["prompt_tokens"]
    ELSE IF key = "output_tokens" /\ HasKey(usage_value, "completion_tokens")
    THEN usage_value["completion_tokens"]
    ELSE 0

\* x_take::<i32>(key) with unwrap_or(0): the counter, or 0 when the key is absent.
\* Counters are token counts, far below the i32 range.
TakeCounter(usage_value, key) ==
    IF HasKey(usage_value, key) THEN usage_value[key] ELSE 0

\* Variant: cache reads are left out of the prompt count.
PromptTokens_NoCacheRead(input_tokens, cache_creation_input_tokens, cache_read_input_tokens) ==
    input_tokens + cache_creation_input_tokens

PromptTokens(input_tokens, cache_creation_input_tokens, cache_read_input_tokens) ==
    input_tokens + cache_creation_input_tokens + cache_read_input_tokens

TotalTokens(prompt_tokens, completion_tokens) == prompt_tokens + completion_tokens

HasCacheDetails(cache_creation_input_tokens, cache_read_input_tokens) ==
    cache_creation_input_tokens > 0 \/ cache_read_input_tokens > 0

PromptDetails(cache_creation_input_tokens, cache_read_input_tokens) ==
    IF HasCacheDetails(cache_creation_input_tokens, cache_read_input_tokens)
    THEN Some([cache_creation_tokens |-> Some(cache_creation_input_tokens),
               cached_tokens |-> Some(cache_read_input_tokens),
               audio_tokens |-> None])
    ELSE None

into_usage(usage_value) ==
    LET input_tokens == TakeCounter(usage_value, "input_tokens")
        cache_creation_input_tokens == TakeCounter(usage_value, "cache_creation_input_tokens")
        cache_read_input_tokens == TakeCounter(usage_value, "cache_read_input_tokens")
        completion_tokens == TakeCounter(usage_value, "output_tokens")
        prompt_tokens == PromptTokens(input_tokens, cache_creation_input_tokens,
                                      cache_read_input_tokens)
    IN  [prompt_tokens |-> Some(prompt_tokens),
         prompt_tokens_details |-> PromptDetails(cache_creation_input_tokens,
                                                 cache_read_input_tokens),
         completion_tokens |-> Some(completion_tokens),
         completion_tokens_details |-> None,
         total_tokens |-> Some(TotalTokens(prompt_tokens, completion_tokens))]

\* Usage::default()
DefaultUsage ==
    [prompt_tokens |-> None, prompt_tokens_details |-> None, completion_tokens |-> None,
     completion_tokens_details |-> None, total_tokens |-> None]

\* A normalised Usage record seen as a JSON object: its keys are the names of
\* the Usage fields that are set; it has none of the vendor's counter keys.
UsageFieldNames ==
    {"prompt_tokens", "prompt_tokens_details", "completion_tokens",
     "completion_tokens_details", "total_tokens"}

UsageAsValue(usage) ==
    [k \in {f \in UsageFieldNames : IsSome(usage[f])} |-> Unwrap(usage[k])]

\* ---------------------------------------------------------------- to_chat_response
ItemType(item) == XGet(item, "type")

HasThinkingBlocks(json_content_items) ==
    \E i \in 1..Len(json_content_items) :
        /\ IsSome(ItemType(json_content_items[i]))
        /\ Unwrap(ItemType(json_content_items[i])) \in {"thinking", "redacted_thinking"}

TextBlock(text) == [variant |-> "Text", text |-> text, thought_signature |-> None]

ThinkingBlock(text, signature) ==
    [variant |-> "Thinking", text |-> text, signature |-> signature]

RedactedThinkingBlock(data) == [variant |-> "RedactedThinking", data |-> data]

ToolUseBlock(id, name, input) ==
    [variant |-> "ToolUse", id |-> id, name |-> name, input |-> input,
     thought_signature |-> None]

ToolResultBlock(tool_use_id, content) ==
    [variant |-> "ToolResult", tool_use_id |-> tool_use_id, content |-> content]

JsonNull == <<"null">>

InputOrDefault(item) == IF HasKey(item, "input") THEN item["input"] ELSE JsonNull

\* The text of a thinking element: its "thinking" key, else its "text" key.
ThinkingText(item) ==
    IF HasKey(item, "thinking") THEN XGet(item, "thinking") ELSE XGet(item, "text")

\* One iteration of the block-preserving loop: ok = FALSE where a `?` returns
\* the extraction error; blocks = what is pushed; reasoning = what is appended
\* to reasoning_content.
DecodeBlockItem(item) ==
    IF ~HasKey(item, "type") THEN [ok |-> FALSE, blocks |-> <<>>, reasoning |-> <<>>]
    ELSE CASE item["type"] = "text" ->
                IF HasKey(item, "text")
                THEN [ok |-> TRUE, blocks |-> <<TextBlock(item["text"])>>, reasoning |-> <<>>]
                ELSE [ok |-> FALSE, blocks |-> <<>>, reasoning |-> <<>>]
           [] item["type"] = "thinking" ->
                IF IsSome(ThinkingText(item))
                THEN [ok |-> TRUE,
                      blocks |-> <<ThinkingBlock(Unwrap(ThinkingText(item)),
                                                 XGet(item, "signature"))>>,
                      reasoning |-> Unwrap(ThinkingText(item)) \o <<"\n">>]
                ELSE [ok |-> FALSE, blocks |-> <<>>, reasoning |-> <<>>]
           [] item["type"] = "redacted_thinking" ->
                IF HasKey(item, "data")
                THEN [ok |-> TRUE, blocks |-> <<RedactedThinkingBlock(item["data"])>>,
                      reasoning |-> <<>>]
                ELSE [ok |-> FALSE, blocks |-> <<>>, reasoning |-> <<>>]
           [] item["type"] = "tool_use" ->
                IF HasKey(item, "id") /\ HasKey(item, "name")
                THEN [ok |-> TRUE,
                      blocks |-> <<ToolUseBlock(item["id"], item["name"],
                                                InputOrDefault(item))>>,
                      reasoning |-> <<>>]
                ELSE [ok |-> FALSE, blocks |-> <<>>, reasoning |-> <<>>]
           [] OTHER -> [ok |-> TRUE, blocks |-> <<>>, reasoning |-> <<>>]

\* Variant: the accumulated text is returned untrimmed.
ReasoningContent_NoTrim(reasoning_content) ==
    IF Len(reasoning_content) = 0 THEN None ELSE Some(reasoning_content)

ReasoningContent(reasoning_content) ==
    IF Len(reasoning_content) = 0 THEN None ELSE Some(TrimEnd(reasoning_content))

DecodeWithThinking(json_content_items) ==
    LET decoded == MapSeq(json_content_items, DecodeBlockItem)
    IN  IF \E i \in 1..Len(decoded) : ~decoded[i].ok THEN [ok |-> FALSE]
        ELSE [ok |-> TRUE,
              content |-> <<[kind |-> "Blocks",
                             blocks |-> Flatten([i \in 1..Len(decoded) |-> decoded[i].blocks])]>>,
              reasoning_content |->
                  ReasoningContent(Flatten([i \in 1..Len(decoded) |-> decoded[i].reasoning]))]

\* One iteration of the legacy loop.
DecodeLegacyItem(item) ==
    IF ~HasKey(item, "type") THEN [ok |-> FALSE, texts |-> <<>>, tool_calls |-> <<>>]
    ELSE IF item["type"] = "text"
    THEN IF HasKey(item, "text")
         THEN [ok |-> TRUE, texts |-> <<item["text"]>>, tool_calls |-> <<>>]
         ELSE [ok |-> FALSE, texts |-> <<>>, tool_calls |-> <<>>]
    ELSE IF item["type"] = "tool_use"
    THEN IF HasKey(item, "id") /\ HasKey(item, "name")
         THEN [ok |-> TRUE, texts |-> <<>>,
               tool_calls |-> <<[call_id |-> item["id"], fn_name |-> item["name"],
                                 fn_arguments |-> InputOrDefault(item)]>>]
         ELSE [ok |-> FALSE, texts |-> <<>>, tool_calls |-> <<>>]
    ELSE [ok |-> TRUE, texts |-> <<>>, tool_calls |-> <<>>]

\* Variant: the Text entry is pushed before the ToolCalls entry.
LegacyContent_TextFirst(text_content, tool_calls) ==
    (IF Len(text_content) > 0
     THEN <<[kind |-> "Text", text |-> JoinWith(text_content, <<"\n">>)]>>
     ELSE <<>>)
    \o (IF Len(tool_calls) > 0 THEN <<[kind |-> "ToolCalls", tool_calls |-> tool_calls]>>
        ELSE <<>>)

LegacyContent(text_content, tool_calls) ==
    (IF Len(tool_calls) > 0 THEN <<[kind |-> "ToolCalls", tool_calls |-> tool_calls]>>
     ELSE <<>>)
    \o (IF Len(text_content) > 0
        THEN <<[kind |-> "Text", text |-> JoinWith(text_content, <<"\n">>)]>>
        ELSE <<>>)

DecodeLegacy(json_content_items) ==
    LET decoded == MapSeq(json_content_items, DecodeLegacyItem)
    IN  IF \E i \in 1..Len(decoded) : ~decoded[i].ok THEN [ok |-> FALSE]
        ELSE [ok |-> TRUE,
              content |-> LegacyContent(
                              Flatten([i \in 1..Len(decoded) |-> decoded[i].texts]),
                              Flatten([i \in 1..Len(decoded) |-> decoded[i].tool_calls])),
              reasoning_content |-> None]

DecodeContent(json_content_items) ==
    IF HasThinkingBlocks(json_content_items) THEN DecodeWithThinking(json_content_items)
    ELSE DecodeLegacy(json_content_items)

to_chat_response(model_iden, body, options_set) ==
    IF ~HasKey(body, "content") THEN [ok |-> FALSE]
    ELSE IF ~DecodeContent(body["content"]).ok THEN [ok |-> FALSE]
    ELSE [ok |-> TRUE,
          content |-> DecodeContent(body["content"]).content,
          reasoning_content |-> DecodeContent(body["content"]).reasoning_content,
          model_iden |-> model_iden,
          provider_model_iden |-> IF HasKey(body, "model") THEN body["model"] ELSE model_iden,
          usage |-> IF HasKey(body, "usage") THEN into_usage(body["usage"]) ELSE DefaultUsage,
          captured_raw_body |-> IF IsSome(options_set.capture_raw_body)
                                   /\ Unwrap(options_set.capture_raw_body)
                                THEN Some(body) ELSE None]

\* ---------------------------------------------------------------- arguments
MaxMsgs == 2

MaxResp == 2

MaxBlocks == 3

MaxItems == 3

MaxTok == 3

SeqsUpTo(S, n) == UNION {[1..k -> S] : k \in 0..n}

ModelNames ==
    {<<"claude", "-", "opus", "-", "4", "-", "1", "-", "20250805">>,
     <<"claude", "-", "sonnet", "-", "4", "-", "5", "-", "20250929">>,
     <<"claude", "-", "sonnet", "-", "4", "-", "20250514">>,
     <<"claude", "-", "3", "-", "7", "-", "sonnet", "-", "latest">>,
     <<"claude", "-", "haiku", "-", "4", "-", "5", "-", "20251001">>,
     <<"claude", "-", "3", "-", "5", "-", "haiku", "-", "latest">>,
     <<"claude", "-", "3", "-", "5", "-", "sonnet", "-", "latest">>,
     <<"claude", "-", "3", "-", "opus", "-", "20240229">>,
     <<"claude", "-", "3", "-", "haiku", "-", "20240307">>,
     <<"some", "-", "other", "-", "model">>}

Sonnet4 == <<"claude", "-", "sonnet", "-", "4", "-", "20250514">>

Effort(level, budget) == [level |-> level, budget |-> budget]

BudgetValues == {0, 500, 1024, 2000, 70000}

ReasoningEfforts ==
    {None} \cup {Some(Effort(l, 0)) : l \in {"Low", "Medium", "High"}}
           \cup {Some(Effort("Budget", b)) : b \in BudgetValues}

MaxTokensOptions == {None} \cup {Some(v) : v \in {50, 100, 1000, 1123, 1124, 5000, 64000}}

TemperatureOptions == {None, Some(70)}

TopPOptions == {None, Some(50), Some(95), Some(100)}

StopSequences == {<<>>, <<<<"END">>>>}

ApiKey == <<"sk-ant-key">>

BearerToken == <<"Bearer ", "oauth-token">>

Target(auth, model_name) == [endpoint |-> BASE_URL, auth |-> auth, model_name |-> model_name]

NoOptions ==
    [max_tokens |-> None, reasoning_effort |-> None, temperature |-> None, top_p |-> None,
     stop_sequences |-> <<>>]

\* -- canonical messages
NoCache == Some([cache_control |-> None])

Cached == Some([cache_control |-> Some("Ephemeral")])

Msg(role, content, options) == [role |-> role, content |-> content, options |-> options]

Text(text) == [kind |-> "Text", text |-> text]

Parts(parts) == [kind |-> "Parts", parts |-> parts]

Blocks(blocks) == [kind |-> "Blocks", blocks |-> blocks]

ToolCalls(tool_calls) == [kind |-> "ToolCalls", tool_calls |-> tool_calls]

ToolResponses(tool_responses) == [kind |-> "ToolResponses", tool_responses |-> tool_responses]

ToolResponse(call_id, content) == [call_id |-> call_id, content |-> content, is_error |-> None]

SomeParts ==
    <<[kind |-> "Text", text |-> <<"p">>],
      [kind |-> "Image", content_type |-> <<"image/png">>, source |-> "Url", data |-> <<"u">>]>>

SomeToolCalls ==
    <<[call_id |-> <<"c1">>, fn_name |-> <<"f">>, fn_arguments |-> <<"{}">>]>>

BlockPalette ==
    {TextBlock(<<"a">>), ThinkingBlock(<<"t">>, Some(<<"sig">>)), ThinkingBlock(<<"u">>, None),
     RedactedThinkingBlock(<<"r">>), ToolUseBlock(<<"c1">>, <<"f">>, <<"{}">>),
     ToolResultBlock(<<"c1">>, <<"x">>)}

SomeBlocks == <<ThinkingBlock(<<"t">>, Some(<<"sig">>)), TextBlock(<<"a">>)>>

SomeToolResponses == <<ToolResponse(<<"c1">>, <<"x">>)>>

ContentPalette(role) ==
    {Text(<<"a">>), Parts(SomeParts), Blocks(SomeBlocks), ToolCalls(SomeToolCalls),
     ToolResponses(SomeToolResponses)}
    \cup (IF role = "System" THEN {Text(<<"b">>)} ELSE {})

Roles == {"System", "User", "Assistant", "Tool"}

MsgPalette ==
    UNION {{Msg(role, c, o) : c \in ContentPalette(role), o \in {NoCache, Cached}} :
             role \in Roles}

ToolDef(name, description) ==
    [name |-> name, schema |-> <<"{schema}">>, description |-> description]

ToolsOptions ==
    {None, Some(<<>>), Some(<<ToolDef(<<"f">>, None)>>),
     Some(<<ToolDef(<<"f">>, Some(<<"d">>)), ToolDef(<<"g">>, None)>>)}

ChatReq(system, messages, tools) ==
    [system |-> system, messages |-> messages, tools |-> tools]

RequestCall(target, service_type, chat_req, options_set) ==
    [op |-> "to_web_request_data", target |-> target, service_type |-> service_type,
     chat_req |-> chat_req, options_set |-> options_set]

\* Every option and model, one System segment and one User message.
OptionCalls ==
    {RequestCall(Target(Some(ApiKey), m), st,
                 ChatReq(Some(<<"s">>), <<Msg("User", Text(<<"a">>), None)>>, None),
                 [max_tokens |-> mt, reasoning_effort |-> re, temperature |-> te,
                  top_p |-> tp, stop_sequences |-> ss]) :
        m \in ModelNames, st \in {"Chat", "ChatStream"}, mt \in MaxTokensOptions,
        re \in ReasoningEfforts, te \in TemperatureOptions, tp \in TopPOptions,
        ss \in StopSequences}

\* Every message sequence, with and without a top-level system text, in both
\* auth modes.
MessageCalls ==
    {RequestCall(Target(Some(k), Sonnet4), "Chat", ChatReq(sy, ms, None), NoOptions) :
        k \in {ApiKey, BearerToken}, sy \in {None, Some(<<"s">>)},
        ms \in SeqsUpTo(MsgPalette, MaxMsgs)}

\* Tool-role messages with every list of tool responses; tool definitions; a
\* target with no credential; a message without options.
ToolResponsePalette ==
    {ToolResponse(id, c) : id \in {<<"c1">>, <<"c2">>}, c \in {<<"x">>, <<"y">>}}

ToolCallsCalls ==
    {RequestCall(Target(k, Sonnet4), "Chat",
                 ChatReq(None,
                         pre \o <<Msg("Tool", ToolResponses(trs), o)>>,
                         tl),
                 NoOptions) :
        k \in {None, Some(ApiKey), Some(BearerToken)},
        pre \in {<<>>, <<Msg("User", Text(<<"a">>), None)>>},
        trs \in SeqsUpTo(ToolResponsePalette, MaxResp),
        o \in {None, NoCache, Cached}, tl \in ToolsOptions}

\* Assistant and User messages over every block sequence.
BlocksCalls ==
    {RequestCall(Target(Some(ApiKey), Sonnet4), "Chat",
                 ChatReq(None, <<Msg(role, Blocks(bs), o)>>, None), NoOptions) :
        role \in {"User", "Assistant"}, bs \in SeqsUpTo(BlockPalette, MaxBlocks),
        o \in {NoCache, Cached}}

\* -- vendor usage payloads: any subset of the four counters, each 0..MaxTok
VendorCounterKeys ==
    {"input_tokens", "cache_creation_input_tokens", "cache_read_input_tokens", "output_tokens"}

UsageValues == UNION {[K -> 0..MaxTok] : K \in SUBSET VendorCounterKeys}

UsageCalls == {[op |-> "into_usage", usage_value |-> u] : u \in UsageValues}

\* -- vendor responses
ItemPalette ==
    {[type |-> "text", text |-> <<"a">>],
     [type |-> "text", text |-> <<"b">>],
     [type |-> "text"],
     [type |-> "thinking", thinking |-> <<"t">>, signature |-> <<"sig">>],
     [type |-> "thinking", thinking |-> <<"w", " ", "\n">>],
     [type |-> "thinking", text |-> <<"u">>],
     [type |-> "thinking"],
     [type |-> "redacted_thinking", data |-> <<"r">>],
     [type |-> "tool_use", id |-> <<"c1">>, name |-> <<"f">>, input |-> <<"{}">>],
     [type |-> "tool_use", id |-> <<"c2">>, name |-> <<"g">>],
     [type |-> "tool_use", name |-> <<"g">>],
     [type |-> "server_tool_use", id |-> <<"c3">>],
     [text |-> <<"a">>]}

ResponseBodies ==
    {[model |-> <<"claude-provider">>, usage |-> [input_tokens |-> 1, output_tokens |-> 2],
      content |-> items] : items \in SeqsUpTo(ItemPalette, MaxItems)}
    \cup {[content |-> items] : items \in SeqsUpTo(ItemPalette, 1)}
    \cup {[model |-> <<"claude-provider">>]}

ResponseCalls ==
    {[op |-> "to_chat_response", model_iden |-> Sonnet4, body |-> b,
      options_set |-> [capture_raw_body |-> c]] :
        b \in ResponseBodies, c \in {None, Some(TRUE)}}

\* ---------------------------------------------------------------- state machine
Init ==
    /\ \/ call \in OptionCalls
       \/ call \in MessageCalls
       \/ call \in ToolCallsCalls
       \/ call \in BlocksCalls
       \/ call \in UsageCalls
       \/ call \in ResponseCalls
    /\ result = None
    /\ again = None

ToWebRequestData ==
    /\ call.op = "to_web_request_data"
    /\ result = None
    /\ result' = Some(to_web_request_data(call.target, call.service_type, call.chat_req,
                                          call.options_set))
    /\ UNCHANGED <<call, again>>

ToChatResponse ==
    /\ call.op = "to_chat_response"
    /\ result = None
    /\ result' = Some(to_chat_response(call.model_iden, call.body, call.options_set))
    /\ UNCHANGED <<call, again>>

IntoUsage ==
    /\ call.op = "into_usage"
    /\ result = None
    /\ result' = Some(into_usage(call.usage_value))
    /\ UNCHANGED <<call, again>>

\* into_usage applied to the record the first application returned.
IntoUsageAgain ==
    /\ call.op = "into_usage"
    /\ IsSome(result)
    /\ again = None
    /\ again' = Some(into_usage(UsageAsValue(Unwrap(result))))
    /\ UNCHANGED <<call, result>>

\* Round trip of an Assistant message of Blocks content: the content array
\* to_web_request_data wrote for it comes back as the content of a response
\* and to_chat_response decodes it.
DecodeEncodedBlocks ==
    /\ call.op = "to_web_request_data"
    /\ IsSome(result)
    /\ Unwrap(result).ok
    /\ again = None
    /\ Len(call.chat_req.messages) = 1
    /\ call.chat_req.messages[1].role = "Assistant"
    /\ call.chat_req.messages[1].content.kind = "Blocks"
    /\ again' = Some(to_chat_response(
                        call.target.model_name,
                        [content |-> Unwrap(result).payload.messages[1].content.items],
                        [capture_raw_body |-> None]))
    /\ UNCHANGED <<call, result>>

Next ==
    ToWebRequestData \/ ToChatResponse \/ IntoUsage \/ IntoUsageAgain \/ DecodeEncodedBlocks

Spec == Init /\ [][Next]_vars

\* ---------------------------------------------------------------- properties
RequestDone == call.op = "to_web_request_data" /\ IsSome(result)

RequestOk == RequestDone /\ Unwrap(result).ok

Payload == Unwrap(result).payload

OAuthMode == IsSome(call.target.auth) /\ StartsWith(Unwrap(call.target.auth), <<"Bearer ">>)

\* The caller's system segments as the specification describes them: the
\* top-level system text, then the System-role messages of Text content.
IsSystemText(msg) == msg.role = "System" /\ msg.content.kind = "Text"

IsSystemMessage(msg) == msg.role = "System"

SegmentTexts ==
    (IF IsSome(call.chat_req.system) THEN <<Unwrap(call.chat_req.system)>> ELSE <<>>)
    \o [i \in 1..Len(SelectSeq(call.chat_req.messages, IsSystemText)) |->
          SelectSeq(call.chat_req.messages, IsSystemText)[i].content.text]

SegmentFlags ==
    (IF IsSome(call.chat_req.system) THEN <<FALSE>> ELSE <<>>)
    \o [i \in 1..Len(SelectSeq(call.chat_req.messages, IsSystemText)) |->
          LET o == SelectSeq(call.chat_req.messages, IsSystemText)[i].options
          IN  o # None /\ o[1].cache_control # None]

NumSegments == Len(SegmentTexts)

\* C1: whenever the payload carries a thinking object, its budget_tokens is at
\* least 1024 and at most max_tokens - 100, whatever max_tokens is.
C1_BudgetWithinBounds ==
    (RequestOk /\ IsSome(Payload.thinking)) =>
        /\ 1024 <= Unwrap(Payload.thinking).budget_tokens
        /\ Unwrap(Payload.thinking).budget_tokens <= Payload.max_tokens - 100

\* C2: in API-key mode with N >= 1 segments, the system value is the
\* blank-line join of the segments when none is flagged, and otherwise an
\* array of N parts annotated at the last flagged index (index 0 included)
\* and nowhere else.
C2_LastFlagWins ==
    (RequestOk /\ ~OAuthMode /\ NumSegments >= 1) =>
        /\ IsSome(Payload.system)
        /\ IF \A i \in 1..NumSegments : ~SegmentFlags[i]
           THEN Unwrap(Payload.system) = JStr(JoinWith(SegmentTexts, <<"\n", "\n">>))
           ELSE /\ Unwrap(Payload.system).kind = "array"
                /\ Len(Unwrap(Payload.system).items) = NumSegments
                /\ \A i \in 1..NumSegments :
                      HasKey(Unwrap(Payload.system).items[i], "cache_control")
                      <=> /\ SegmentFlags[i]
                          /\ \A j \in (i + 1)..NumSegments : ~SegmentFlags[j]

\* C3: in OAuth mode every successful request, with or without caller system
\* segments, carries a system array whose first element is the identity
\* segment, and the first caller segment (if any) starts with the disclaimer.
C3_OAuthIdentityAlways ==
    (RequestOk /\ OAuthMode) =>
        /\ IsSome(Payload.system)
        /\ Unwrap(Payload.system).kind = "array"
        /\ Len(Unwrap(Payload.system).items) >= 1
        /\ Unwrap(Payload.system).items[1].text = OAuthIdentity
        /\ NumSegments >= 1 =>
              /\ Len(Unwrap(Payload.system).items) >= 2
              /\ StartsWith(Unwrap(Payload.system).items[2].text, NotClaudeCodePrefix)

\* C4: in OAuth mode with N >= 1 caller segments the system array has N + 1
\* parts, the caller's texts in order after the identity part, the part of
\* segment i annotated {ephemeral, 1h} iff the segment is flagged or is the
\* last one, and the identity part never annotated.
C4_OAuthCachePlacement ==
    (RequestOk /\ OAuthMode /\ NumSegments >= 1) =>
        /\ IsSome(Payload.system)
        /\ Unwrap(Payload.system).kind = "array"
        /\ Len(Unwrap(Payload.system).items) = NumSegments + 1
        /\ ~HasKey(Unwrap(Payload.system).items[1], "cache_control")
        /\ \A i \in 1..NumSegments :
              LET part == Unwrap(Payload.system).items[i + 1]
              IN  /\ part.text = IF i = 1 THEN NotClaudeCodePrefix \o SegmentTexts[i]
                                 ELSE SegmentTexts[i]
                  /\ HasKey(part, "cache_control") <=> (SegmentFlags[i] \/ i = NumSegments)
                  /\ HasKey(part, "cache_control") =>
                        part["cache_control"] = [type |-> "ephemeral", ttl |-> "1h"]

C4_Witness ==
    /\ RequestOk /\ OAuthMode /\ NumSegments = 3
    /\ SegmentFlags = <<FALSE, TRUE, FALSE>>
    /\ HasKey(Unwrap(Payload.system).items[3], "cache_control")
    /\ HasKey(Unwrap(Payload.system).items[4], "cache_control")

\* C5 (as stated): every System-role message, of any content, is one segment
\* of the system value, and none is a wire message.
NumSystemMessages ==
    (IF IsSome(call.chat_req.system) THEN 1 ELSE 0)
    + Len(SelectSeq(call.chat_req.messages, IsSystemMessage))

IsNotSystemMessage(msg) == msg.role # "System"

NoSystemOnWire ==
    /\ Len(Payload.messages) <= Len(SelectSeq(call.chat_req.messages, IsNotSystemMessage))
    /\ \A j \in 1..Len(Payload.messages) : Payload.messages[j].role \in {"user", "assistant"}

C5_EverySystemMessageIsSegment ==
    (RequestOk /\ NumSystemMessages >= 1) =>
        /\ IsSome(Payload.system)
        /\ OAuthMode => Len(Unwrap(Payload.system).items) = NumSystemMessages + 1
        /\ NoSystemOnWire

\* The texts of the emitted system value, one per segment.
EmittedSegmentTexts ==
    IF Unwrap(Payload.system).kind = "array"
    THEN [i \in 1..Len(Unwrap(Payload.system).items) |-> Unwrap(Payload.system).items[i].text]
    ELSE <<Unwrap(Payload.system).text>>

\* C5 (amended): the segments of the system value are the top-level system
\* text followed by the System-role messages of Text content, in message
\* order; a System-role message of any other content adds no segment; no
\* System-role message is a wire message.
C5_SystemTextSegments ==
    RequestOk =>
        /\ NoSystemOnWire
        /\ NumSegments >= 1 =>
              /\ IsSome(Payload.system)
              /\ EmittedSegmentTexts =
                    IF OAuthMode
                    THEN <<OAuthIdentity, NotClaudeCodePrefix \o SegmentTexts[1]>>
                         \o SubSeq(SegmentTexts, 2, NumSegments)
                    ELSE IF Unwrap(Payload.system).kind = "array" THEN SegmentTexts
                    ELSE <<JoinWith(SegmentTexts, <<"\n", "\n">>)>>

C5_Witness ==
    /\ RequestOk /\ NumSegments = 2 /\ NumSystemMessages = 3
    /\ call.chat_req.messages[1].role = "System"
    /\ call.chat_req.messages[1].content.kind = "Blocks"
    /\ call.chat_req.messages[2].content.text = <<"b">>
    /\ Unwrap(Payload.system) = JStr(<<"s", "\n", "\n", "b">>)

\* C6: the wire messages are, in order, one per non-System message of a
\* supported (role, content) combination; the others yield nothing and the
\* translation still succeeds.
IsSupported(msg) ==
    \/ msg.role = "User" /\ msg.content.kind \in {"Text", "Parts", "Blocks"}
    \/ msg.role = "Assistant" /\ msg.content.kind \in {"Text", "ToolCalls", "Blocks"}
    \/ msg.role = "Tool" /\ msg.content.kind = "ToolResponses"

ItemTypes(content) == [i \in 1..Len(content.items) |-> content.items[i]["type"]]

BlockWireType(block) ==
    CASE block.variant = "Text" -> "text"
      [] block.variant = "Thinking" -> "thinking"
      [] block.variant = "RedactedThinking" -> "redacted_thinking"
      [] block.variant = "ToolUse" -> "tool_use"
      [] block.variant = "ToolResult" -> "tool_result"

\* The wire message `wire` is the translation of the canonical message `msg`.
WireMatches(wire, msg) ==
    /\ wire.role = IF msg.role = "Assistant" THEN "assistant" ELSE "user"
    /\ CASE msg.content.kind = "Text" ->
              \/ wire.content = [kind |-> "string", text |-> msg.content.text]
              \/ /\ wire.content.kind = "array"
                 /\ Len(wire.content.items) = 1
                 /\ wire.content.items[1].text = msg.content.text
         [] msg.content.kind = "Parts" ->
              /\ wire.content.kind = "array"
              /\ Len(wire.content.items) = Len(msg.content.parts)
              /\ \A i \in 1..Len(msg.content.parts) :
                    wire.content.items[i]["type"] =
                        IF msg.content.parts[i].kind = "Text" THEN "text" ELSE "image"
         [] msg.content.kind = "Blocks" ->
              /\ wire.content.kind = "array"
              /\ ItemTypes(wire.content) =
                    [i \in 1..Len(msg.content.blocks) |-> BlockWireType(msg.content.blocks[i])]
         [] msg.content.kind = "ToolCalls" ->
              /\ wire.content.kind = "array"
              /\ ItemTypes(wire.content) = [i \in 1..Len(msg.content.tool_calls) |-> "tool_use"]
         [] msg.content.kind = "ToolResponses" ->
              /\ wire.content.kind = "array"
              /\ ItemTypes(wire.content) =
                    [i \in 1..Len(msg.content.tool_responses) |-> "tool_result"]

SupportedMessages == SelectSeq(call.chat_req.messages, IsSupported)

C6_WireIsSupportedSubsequence ==
    /\ (RequestDone /\ IsSome(call.target.auth)) => Unwrap(result).ok
    /\ RequestOk =>
          /\ Len(Payload.messages) = Len(SupportedMessages)
          /\ \A j \in 1..Len(SupportedMessages) :
                WireMatches(Payload.messages[j], SupportedMessages[j])

C6_Witness ==
    /\ RequestOk
    /\ Len(call.chat_req.messages) = 2
    /\ call.chat_req.messages[1].role = "Assistant"
    /\ call.chat_req.messages[1].content.kind = "Parts"
    /\ call.chat_req.messages[2].role = "Tool"
    /\ call.chat_req.messages[2].content.kind = "ToolResponses"
    /\ Len(Payload.messages) = 1
    /\ Payload.messages[1].role = "user"

\* C7: a Tool-role message of k tool responses is one wire message of role
\* "user" whose content is an array of k tool_result objects, the i-th with
\* the i-th response's call_id as tool_use_id and that response's content; no
\* wire message has role "tool".
WireIndex(i) == Len(SelectSeq(SubSeq(call.chat_req.messages, 1, i), IsSupported))

C7_ToolResponsesAsUserMessage ==
    RequestOk =>
        /\ \A j \in 1..Len(Payload.messages) : Payload.messages[j].role # "tool"
        /\ \A i \in 1..Len(call.chat_req.messages) :
              LET msg == call.chat_req.messages[i]
              IN  (msg.role = "Tool" /\ msg.content.kind = "ToolResponses") =>
                    /\ WireIndex(i) = WireIndex(i - 1) + 1
                    /\ WireIndex(i) <= Len(Payload.messages)
                    /\ LET wire == Payload.messages[WireIndex(i)]
                       IN  /\ wire.role = "user"
                           /\ wire.content.kind = "array"
                           /\ Len(wire.content.items) = Len(msg.content.tool_responses)
                           /\ \A k \in 1..Len(msg.content.tool_responses) :
                                 /\ wire.content.items[k]["type"] = "tool_result"
                                 /\ wire.content.items[k].tool_use_id =
                                       msg.content.tool_responses[k].call_id
                                 /\ wire.content.items[k].content =
                                       msg.content.tool_responses[k].content

C7_Witness ==
    /\ RequestOk
    /\ Len(call.chat_req.messages) = 2
    /\ call.chat_req.messages[2].role = "Tool"
    /\ call.chat_req.messages[2].content.kind = "ToolResponses"
    /\ call.chat_req.messages[2].content.tool_responses =
          <<ToolResponse(<<"c1">>, <<"x">>), ToolResponse(<<"c2">>, <<"y">>)>>
    /\ Len(Payload.messages) = 2
    /\ Len(Payload.messages[2].content.items) = 2
    /\ Payload.messages[2].content.items[2].tool_use_id = <<"c2">>

\* C8: prompt_tokens is the sum of the three input-side counters (absent
\* ones 0), total_tokens is prompt_tokens + completion_tokens, and the detail
\* record is present exactly when a cache counter is nonzero.
UsageDone == call.op = "into_usage" /\ IsSome(result)

Counter(key) == IF key \in DOMAIN call.usage_value THEN call.usage_value[key] ELSE 0

C8_UsageSums ==
    UsageDone =>
        LET usage == Unwrap(result)
            cache_write == Counter("cache_creation_input_tokens")
            cache_read == Counter("cache_read_input_tokens")
        IN  /\ usage.prompt_tokens = <<Counter("input_tokens") + cache_write + cache_read>>
            /\ usage.completion_tokens = <<Counter("output_tokens")>>
            /\ usage.total_tokens = <<usage.prompt_tokens[1] + usage.completion_tokens[1]>>
            /\ (usage.prompt_tokens_details # <<>>) <=> (cache_write # 0 \/ cache_read # 0)
            /\ usage.prompt_tokens_details # <<>> =>
                  /\ usage.prompt_tokens_details[1].cache_creation_tokens = <<cache_write>>
                  /\ usage.prompt_tokens_details[1].cached_tokens = <<cache_read>>

C8_Witness ==
    /\ UsageDone
    /\ call.usage_value = [input_tokens |-> 1, cache_read_input_tokens |-> 2, output_tokens |-> 3]
    /\ Unwrap(result).prompt_tokens = <<3>>
    /\ Unwrap(result).total_tokens = <<6>>
    /\ Unwrap(result).prompt_tokens_details # <<>>

\* C9 (as stated): a second normalisation of a normalised record whose detail
\* fields are populated returns the total_tokens of the first.
UsageTwice == UsageDone /\ IsSome(again)

ResponseDone == call.op = "to_chat_response" /\ IsSome(result)

ResponseItems == IF "content" \in DOMAIN call.body THEN call.body["content"] ELSE <<>>

IsThinkingItem(item) == "type" \in DOMAIN item /\ item["type"] = "thinking"

IsReasoningItem(item) ==
    "type" \in DOMAIN item /\ item["type"] \in {"thinking", "redacted_thinking"}

IsRecognisedItem(item) ==
    "type" \in DOMAIN item
    /\ item["type"] \in {"text", "thinking", "redacted_thinking", "tool_use"}

\* A recognised element lacking a field the decoder requires, or an element
\* with no type at all.
IsMalformedItem(item) ==
    \/ "type" \notin DOMAIN item
    \/ item["type"] = "text" /\ "text" \notin DOMAIN item
    \/ item["type"] = "thinking" /\ {"thinking", "text"} \cap DOMAIN item = {}
    \/ item["type"] = "redacted_thinking" /\ "data" \notin DOMAIN item
    \/ item["type"] = "tool_use" /\ ~({"id", "name"} \subseteq DOMAIN item)

ThinkingPresent == \E i \in 1..Len(ResponseItems) : IsReasoningItem(ResponseItems[i])

TextOfThinking(item) == IF "thinking" \in DOMAIN item THEN item["thinking"] ELSE item["text"]

\* Block `block` is the decoding of the content element `item`.
BlockMatches(block, item) ==
    CASE item["type"] = "text" -> block.variant = "Text" /\ block.text = item["text"]
      [] item["type"] = "thinking" ->
            block.variant = "Thinking" /\ block.text = TextOfThinking(item)
      [] item["type"] = "redacted_thinking" ->
            block.variant = "RedactedThinking" /\ block.data = item["data"]
      [] item["type"] = "tool_use" ->
            block.variant = "ToolUse" /\ block.id = item["id"] /\ block.name = item["name"]

C10_ThinkingKeepsBlocks ==
    (ResponseDone /\ ThinkingPresent) =>
        LET recognised == SelectSeq(ResponseItems, IsRecognisedItem)
            thinking == SelectSeq(ResponseItems, IsThinkingItem)
        IN  /\ Unwrap(result).ok <=> \A i \in 1..Len(ResponseItems) :
                                        ~IsMalformedItem(ResponseItems[i])
            /\ Unwrap(result).ok =>
                  /\ Len(Unwrap(result).content) = 1
                  /\ Unwrap(result).content[1].kind = "Blocks"
                  /\ Len(Unwrap(result).content[1].blocks) = Len(recognised)
                  /\ \A j \in 1..Len(recognised) :
                        BlockMatches(Unwrap(result).content[1].blocks[j], recognised[j])
                  /\ IF Len(thinking) = 0 THEN Unwrap(result).reasoning_content = <<>>
                     ELSE Unwrap(result).reasoning_content =
                            <<TrimEnd(JoinWith([j \in 1..Len(thinking) |->
                                                  TextOfThinking(thinking[j])], <<"\n">>))>>

C10_Witness ==
    /\ ResponseDone /\ Unwrap(result).ok
    /\ ResponseItems = <<[type |-> "thinking", thinking |-> <<"w", " ", "\n">>],
                         [type |-> "server_tool_use", id |-> <<"c3">>],
                         [type |-> "thinking", text |-> <<"u">>]>>
    /\ Len(Unwrap(result).content[1].blocks) = 2
    /\ Unwrap(result).reasoning_content = <<<<"w", " ", "\n", "\n", "u">>>>

\* C11: a response whose content has no thinking and no redacted_thinking
\* element decodes to at most two entries: a ToolCalls entry with the tool_use
\* elements in order (only if there is one), then one Text entry with the text
\* elements joined by newlines (only if there is one); ToolCalls comes first
\* whatever the interleaving, and the reasoning text is absent.
IsTextItem(item) == "type" \in DOMAIN item /\ item["type"] = "text"

IsToolUseItem(item) == "type" \in DOMAIN item /\ item["type"] = "tool_use"

C11_LegacyToolCallsThenText ==
    (ResponseDone /\ "content" \in DOMAIN call.body /\ ~ThinkingPresent) =>
        LET texts == SelectSeq(ResponseItems, IsTextItem)
            tools == SelectSeq(ResponseItems, IsToolUseItem)
            content == Unwrap(result).content
        IN  /\ Unwrap(result).ok <=> \A i \in 1..Len(ResponseItems) :
                                        ~IsMalformedItem(ResponseItems[i])
            /\ Unwrap(result).ok =>
                  /\ Unwrap(result).reasoning_content = <<>>
                  /\ Len(content) = (IF Len(tools) > 0 THEN 1 ELSE 0)
                                    + (IF Len(texts) > 0 THEN 1 ELSE 0)
                  /\ Len(tools) > 0 =>
                        /\ content[1].kind = "ToolCalls"
                        /\ Len(content[1].tool_calls) = Len(tools)
                        /\ \A j \in 1..Len(tools) :
                              /\ content[1].tool_calls[j].call_id = tools[j]["id"]
                              /\ content[1].tool_calls[j].fn_name = tools[j]["name"]
                  /\ Len(texts) > 0 =>
                        /\ content[Len(content)].kind = "Text"
                        /\ content[Len(content)].text =
                              JoinWith([j \in 1..Len(texts) |-> texts[j]["text"]], <<"\n">>)

C11_Witness ==
    /\ ResponseDone /\ Unwrap(result).ok
    /\ ResponseItems = <<[type |-> "text", text |-> <<"a">>],
                         [type |-> "tool_use", id |-> <<"c2">>, name |-> <<"g">>],
                         [type |-> "text", text |-> <<"b">>]>>
    /\ Len(Unwrap(result).content) = 2
    /\ Unwrap(result).content[1].kind = "ToolCalls"
    /\ Unwrap(result).content[2] = [kind |-> "Text", text |-> <<"a", "\n", "b">>]

\* C12 (as stated): an Assistant Blocks message, encoded and decoded back as
\* a thinking-bearing response, gives a Blocks sequence with the same number
\* of blocks, of the same variants, in the same order.
RoundTripDone == call.op = "to_web_request_data" /\ IsSome(result) /\ IsSome(again)

OriginalBlocks == call.chat_req.messages[1].content.blocks

BlockVariants(blocks) == [i \in 1..Len(blocks) |-> blocks[i].variant]

IsReasoningBlock(block) == block.variant \in {"Thinking", "RedactedThinking"}

ThinkingBearing == \E i \in 1..Len(OriginalBlocks) : IsReasoningBlock(OriginalBlocks[i])

C12_RoundTripSameBlocks ==
    (RoundTripDone /\ ThinkingBearing) =>
        /\ Unwrap(again).ok
        /\ Len(Unwrap(again).content) = 1
        /\ Unwrap(again).content[1].kind = "Blocks"
        /\ BlockVariants(Unwrap(again).content[1].blocks) = BlockVariants(OriginalBlocks)

\* C12 (amended): the decoded Blocks sequence holds the blocks of the original
\* other than ToolResult ones, with the same variants in the same order; a
\* ToolResult block is written as a tool_result element, which the decoder
\* skips, so the count is kept exactly when the message has no ToolResult.
IsNotToolResult(block) == block.variant # "ToolResult"

C12_RoundTripSansToolResult ==
    (RoundTripDone /\ ThinkingBearing) =>
        /\ Unwrap(again).ok
        /\ Len(Unwrap(again).content) = 1
        /\ Unwrap(again).content[1].kind = "Blocks"
        /\ BlockVariants(Unwrap(again).content[1].blocks) =
              BlockVariants(SelectSeq(OriginalBlocks, IsNotToolResult))
        /\ Len(Unwrap(again).content[1].blocks) = Len(OriginalBlocks)
              <=> \A i \in 1..Len(OriginalBlocks) : IsNotToolResult(OriginalBlocks[i])

C12_Witness ==
    /\ RoundTripDone /\ Unwrap(again).ok
    /\ BlockVariants(OriginalBlocks) = <<"ToolUse", "ToolResult", "Thinking">>
    /\ BlockVariants(Unwrap(again).content[1].blocks) = <<"ToolUse", "Thinking">>

\* C13: every payload carries max_tokens; without a caller value it is the
\* tier of the model's family (claude-sonnet-* and claude-3-7-sonnet 64000,
\* claude-opus-4 32000, claude-3-5 8192, claude-3-opus / claude-3-haiku 4096,
\* anything else 64000), whatever the other options, the messages and the
\* auth mode are.
FamilyTier(model_name) ==
    CASE model_name \in {<<"claude", "-", "sonnet", "-", "4", "-", "5", "-", "20250929">>,
                         <<"claude", "-", "sonnet", "-", "4", "-", "20250514">>,
                         <<"claude", "-", "3", "-", "7", "-", "sonnet", "-", "latest">>} -> 64000
      [] model_name = <<"claude", "-", "opus", "-", "4", "-", "1", "-", "20250805">> -> 32000
      [] model_name \in {<<"claude", "-", "3", "-", "5", "-", "haiku", "-", "latest">>,
                         <<"claude", "-", "3", "-", "5", "-", "sonnet", "-", "latest">>} -> 8192
      [] model_name \in {<<"claude", "-", "3", "-", "opus", "-", "20240229">>,
                         <<"claude", "-", "3", "-", "haiku", "-", "20240307">>} -> 4096
      [] OTHER -> 64000

RequiresExclusivity ==
    call.target.model_name \in
        {<<"claude", "-", "sonnet", "-", "4", "-", "5", "-", "20250929">>,
         <<"claude", "-", "haiku", "-", "4", "-", "5", "-", "20251001">>}

C14_SamplingExclusivity ==
    /\ (RequestDone /\ call.target.auth # <<>>) => Unwrap(result).ok
    /\ RequestOk =>
          /\ Payload.thinking # <<>> => Payload.temperature = <<>>
          /\ RequiresExclusivity => (Payload.temperature = <<>> \/ Payload.top_p = <<>>)
          /\ (Payload.thinking # <<>> /\ Payload.top_p # <<>>) =>
                /\ Payload.top_p = call.options_set.top_p
                /\ 95 <= Payload.top_p[1]
                /\ Payload.top_p[1] <= 100

C14_Witness ==
    /\ RequestOk /\ RequiresExclusivity
    /\ call.options_set.temperature = <<70>>
    /\ call.options_set.top_p = <<95>>
    /\ call.options_set.reasoning_effort = <<>>
    /\ Payload.temperature = <<70>>
    /\ Payload.top_p = <<>>

\* C15: the thinking object is present exactly when the model name is of a
\* thinking-capable family (claude-opus-4, claude-sonnet-4, claude-3-7-sonnet,
\* claude-haiku-4-5) and the reasoning effort is Low, Medium, High or
\* Budget(b) with b > 0; a reasoning effort for any other model does not fail
\* the call: no thinking object, and temperature as the caller gave it.
ThinkingCapable ==
    call.target.model_name \in
        {<<"claude", "-", "opus", "-", "4", "-", "1", "-", "20250805">>,
         <<"claude", "-", "sonnet", "-", "4", "-", "5", "-", "20250929">>,
         <<"claude", "-", "sonnet", "-", "4", "-", "20250514">>,
         <<"claude", "-", "3", "-", "7", "-", "sonnet", "-", "latest">>,
         <<"claude", "-", "haiku", "-", "4", "-", "5", "-", "20251001">>}

EffortRequested ==
    /\ call.options_set.reasoning_effort # <<>>
    /\ \/ call.options_set.reasoning_effort[1].level \in {"Low", "Medium", "High"}
       \/ /\ call.options_set.reasoning_effort[1].level = "Budget"
          /\ call.options_set.reasoning_effort[1].budget > 0

C15_ThinkingOnlyForCapableModels ==
    /\ (RequestDone /\ call.target.auth # <<>> /\ call.options_set.reasoning_effort # <<>>)
          => Unwrap(result).ok
    /\ RequestOk =>
          /\ Payload.thinking # <<>> <=> (ThinkingCapable /\ EffortRequested)
          /\ Payload.thinking # <<>> => Payload.thinking[1]["type"] = "enabled"
          /\ (~ThinkingCapable /\ call.options_set.reasoning_effort # <<>>) =>
                /\ Payload.thinking = <<>>
                /\ Payload.temperature = call.options_set.temperature

C15_Witness ==
    /\ RequestOk
    /\ call.target.model_name = <<"claude", "-", "3", "-", "5", "-", "haiku", "-", "latest">>
    /\ call.options_set.reasoning_effort = <<Effort("High", 0)>>
    /\ call.options_set.temperature = <<70>>
    /\ Payload.thinking = <<>>
    /\ Payload.temperature = <<70>>

====
